---- MODULE Spec2Model ----
(***************************************************************************)
(* Model of src/main.py: the Version class (regex-driven parser,           *)
(* construction, __eq__, __lt__, compare_pre_release) and a caller that,   *)
(* like main(), constructs Versions from raw strings and compares them.    *)
(*                                                                         *)
(* A Python str is a sequence of characters.  A character is a one-letter  *)
(* TLA+ string; the only non-ASCII character of the model is ArabicTwo,    *)
(* U+0662 ARABIC-INDIC DIGIT TWO, a Unicode decimal digit (category Nd):   *)
(* Python's \d and str.isdigit accept it, [0-9] does not, int() reads it   *)
(* as 2.  Python's None is the empty tuple, a present value x is <<x>>.    *)
(***************************************************************************)
EXTENDS Integers, Sequences, FiniteSets, TLC

VARIABLES raw, ver, err, pc, res

vars == <<raw, ver, err, pc, res>>

----------------------------------------------------------------------------
(* Characters and strings *)

\* The characters of a TLA+ string literal, as a sequence.
Chars(s) == [i \in 1..Len(s) |-> SubSeq(s, i, i)]

ArabicTwo == "U+0662"

LF == "\n"

AsciiDigits == Chars("0123456789")

UpperCase == Chars("ABCDEFGHIJKLMNOPQRSTUVWXYZ")

LowerCase == Chars("abcdefghijklmnopqrstuvwxyz")

Range(f) == {f[i] : i \in DOMAIN f}

IndexOf(seq, c) == CHOOSE i \in 1..Len(seq) : seq[i] = c

None == <<>>

Some(x) == <<x>>

\* [0-9]
IsAsciiDigit(c) == c \in Range(AsciiDigits)

\* \d of a str pattern: any Unicode decimal digit
IsDecimal(c) == IsAsciiDigit(c) \/ c = ArabicTwo

\* [1-9]
IsNonZeroDigit(c) == IsAsciiDigit(c) /\ c # "0"

\* [a-zA-Z-]
IsLetterOrHyphen(c) == c \in Range(UpperCase) \cup Range(LowerCase) \cup {"-"}

\* [0-9a-zA-Z-]
IsIdChar(c) == IsAsciiDigit(c) \/ IsLetterOrHyphen(c)

\* ord(c): the code point, which orders Python strings
Ord(c) ==
    CASE c = LF -> 10
      [] c = "+" -> 43
      [] c = "-" -> 45
      [] c = "." -> 46
      [] IsAsciiDigit(c) -> 47 + IndexOf(AsciiDigits, c)
      [] c \in Range(UpperCase) -> 64 + IndexOf(UpperCase, c)
      [] c \in Range(LowerCase) -> 96 + IndexOf(LowerCase, c)
      [] c = ArabicTwo -> 1634

\* The value int() gives a decimal digit
DigitVal(c) == IF c = ArabicTwo THEN 2 ELSE IndexOf(AsciiDigits, c) - 1

\* str.isdigit()
IsDigit(s) == Len(s) > 0 /\ \A i \in 1..Len(s) : IsDecimal(s[i])

RECURSIVE IntOf(_)
\* int(s) of a string of decimal digits
IntOf(s) ==
    IF Len(s) = 0 THEN 0
    ELSE 10 * IntOf(SubSeq(s, 1, Len(s) - 1)) + DigitVal(s[Len(s)])

RECURSIVE Split(_, _)
\* s.split(sep) for a one-character separator
Split(s, sep) ==
    IF \A i \in 1..Len(s) : s[i] # sep THEN <<s>>
    ELSE LET k == CHOOSE i \in 1..Len(s) :
                      s[i] = sep /\ \A j \in 1..(i - 1) : s[j] # sep
         IN  <<SubSeq(s, 1, k - 1)>> \o Split(SubSeq(s, k + 1, Len(s)), sep)

\* s < t on Python strings: lexicographic by code point
StrLt(s, t) ==
    \/ /\ Len(s) < Len(t)
       /\ \A i \in 1..Len(s) : s[i] = t[i]
    \/ \E k \in 1..Len(s) :
          /\ k <= Len(t)
          /\ \A i \in 1..(k - 1) : s[i] = t[i]
          /\ Ord(s[k]) < Ord(t[k])

----------------------------------------------------------------------------
(* parse_semver: the regular expression *)

\* 0|[1-9]\d*
NumericIdRe(s) ==
    \/ s = <<"0">>
    \/ /\ Len(s) >= 1
       /\ IsNonZeroDigit(s[1])
       /\ \A i \in 2..Len(s) : IsDecimal(s[i])

\* [0-9]*[a-zA-Z-][0-9a-zA-Z-]*
AlnumIdRe(s) ==
    \E k \in 1..Len(s) :
       /\ IsLetterOrHyphen(s[k])
       /\ \A i \in 1..(k - 1) : IsAsciiDigit(s[i])
       /\ \A i \in (k + 1)..Len(s) : IsIdChar(s[i])

\* (?:0|[1-9]\d*|[0-9]*[a-zA-Z-][0-9a-zA-Z-]*)
PreIdRe(s) == NumericIdRe(s) \/ AlnumIdRe(s)

\* [0-9a-zA-Z-]+
BuildIdRe(s) == Len(s) >= 1 /\ \A i \in 1..Len(s) : IsIdChar(s[i])

\* id(?:\.id)* over the whole of s
PreReleaseRe(s) ==
    LET ids == Split(s, ".") IN \A i \in 1..Len(ids) : PreIdRe(ids[i])

BuildRe(s) ==
    LET ids == Split(s, ".") IN \A i \in 1..Len(ids) : BuildIdRe(ids[i])

\* Where $ matches: at the end, or just before a newline that ends the string
BodyEnd(s) == IF Len(s) > 0 /\ s[Len(s)] = LF THEN Len(s) - 1 ELSE Len(s)

\* The text before the first "+" and, when there is one, the text after it
BeforePlus(t) == Split(t, "+")[1]

HasPlus(t) == \E i \in 1..Len(t) : t[i] = "+"

AfterPlus(t) == SubSeq(t, Len(BeforePlus(t)) + 2, Len(t))

\* (?:\+(?P<build_metadata>...))?$ over the whole of t
BuildTailRe(t) == t = <<>> \/ (t[1] = "+" /\ BuildRe(SubSeq(t, 2, Len(t))))

\* pre_release(?:\+build)?$ over the whole of t
PreTailRe(t) ==
    /\ PreReleaseRe(BeforePlus(t))
    /\ HasPlus(t) => BuildRe(AfterPlus(t))

\* What follows the patch, in the order the regex engine tries it: the
\* pre-release group with its dash, the group without a dash, no group.
TailMatch(t) ==
    IF Len(t) >= 2 /\ t[1] = "-" /\ PreTailRe(SubSeq(t, 2, Len(t)))
    THEN Some([pre_release |-> Some(BeforePlus(SubSeq(t, 2, Len(t)))),
               build_metadata |-> IF HasPlus(t) THEN Some(AfterPlus(t)) ELSE None])
    ELSE IF Len(t) >= 1 /\ PreTailRe(t)
    THEN Some([pre_release |-> Some(BeforePlus(t)),
               build_metadata |-> IF HasPlus(t) THEN Some(AfterPlus(t)) ELSE None])
    ELSE IF BuildTailRe(t)
    THEN Some([pre_release |-> None,
               build_metadata |-> IF HasPlus(t) THEN Some(AfterPlus(t)) ELSE None])
    ELSE None

\* semver_regex.match(version).groupdict(), or None when there is no match
RegexMatch(s) ==
    LET e == BodyEnd(s)
        dots == {i \in 1..e : s[i] = "."}
    IN  IF Cardinality(dots) < 2 THEN None
        ELSE
        LET d1 == CHOOSE i \in dots : \A j \in dots : i <= j
            d2 == CHOOSE i \in dots \ {d1} : \A j \in dots \ {d1} : i <= j
            \* ends of the patch for which the rest of the pattern matches
            ends == {p \in (d2 + 1)..e :
                        /\ NumericIdRe(SubSeq(s, d2 + 1, p))
                        /\ TailMatch(SubSeq(s, p + 1, e)) # None}
        IN  IF \/ ~NumericIdRe(SubSeq(s, 1, d1 - 1))
               \/ ~NumericIdRe(SubSeq(s, d1 + 1, d2 - 1))
               \/ ends = {}
            THEN None
            ELSE
            \* [1-9]\d* is greedy: the longest patch is tried first
            LET p == CHOOSE q \in ends : \A r \in ends : r <= q
                tail == TailMatch(SubSeq(s, p + 1, e))[1]
            IN  Some([major |-> SubSeq(s, 1, d1 - 1),
                      minor |-> SubSeq(s, d1 + 1, d2 - 1),
                      patch |-> SubSeq(s, d2 + 1, p),
                      pre_release |-> tail.pre_release,
                      build_metadata |-> tail.build_metadata])

\* parse_semver raises ValueError("Invalid version: ...") when this is None
parse_semver(version) == RegexMatch(version)

----------------------------------------------------------------------------
(* Version: construction and comparison *)

\* sys.get_int_max_str_digits(): int() of a longer digit string raises
\* ValueError (the interpreter's default)
IntMaxStrDigits == 4300

\* int(s) returns, for the strings the regex can capture
CanInt(s) == IsDigit(s) /\ Len(s) <= IntMaxStrDigits

\* Version.__init__ after a successful parse: the fields of the new object
NewVersion(d) ==
    [major |-> IntOf(d.major),
     minor |-> IntOf(d.minor),
     patch |-> IntOf(d.patch),
     pre_release |-> d.pre_release,
     build_metadata |-> d.build_metadata]

\* The outcome of a comparison method: it returns the boolean b, or it
\* raises the ValueError of int()
Return(b) == [raised |-> FALSE, value |-> b]

Raise == [raised |-> TRUE, value |-> FALSE]

RECURSIVE ComparePartsLexical(_, _, _)
\* Variant of ComparePartsFrom that compares numeric identifiers as text
ComparePartsLexical(self_parts, other_parts, i) ==
    IF i > Len(self_parts) \/ i > Len(other_parts)
    THEN Return(Len(self_parts) < Len(other_parts))
    ELSE LET self_part == self_parts[i]
             other_part == other_parts[i]
         IN  IF self_part # other_part
             THEN IF IsDigit(self_part) /\ IsDigit(other_part)
                  THEN Return(StrLt(self_part, other_part))
                  ELSE IF IsDigit(self_part) \/ IsDigit(other_part)
                  THEN Return(IsDigit(self_part))
                  ELSE Return(StrLt(self_part, other_part))
             ELSE ComparePartsLexical(self_parts, other_parts, i + 1)

RECURSIVE ComparePartsFrom(_, _, _)
\* The zip loop of compare_pre_release from position i on, and the
\* length comparison that follows it
ComparePartsFrom(self_parts, other_parts, i) ==
    IF i > Len(self_parts) \/ i > Len(other_parts)
    THEN Return(Len(self_parts) < Len(other_parts))
    ELSE LET self_part == self_parts[i]
             other_part == other_parts[i]
         IN  IF self_part # other_part
             THEN IF IsDigit(self_part) /\ IsDigit(other_part)
                  THEN IF CanInt(self_part) /\ CanInt(other_part)
                       THEN Return(IntOf(self_part) < IntOf(other_part))
                       ELSE Raise
                  ELSE IF IsDigit(self_part) \/ IsDigit(other_part)
                  THEN Return(IsDigit(self_part))
                  ELSE Return(StrLt(self_part, other_part))
             ELSE ComparePartsFrom(self_parts, other_parts, i + 1)

\* Variant of compare_pre_release whose one-sided case answers for the
\* wrong side
ComparePreReleaseSwapped(self, other) ==
    IF self.pre_release = None /\ other.pre_release = None THEN Return(FALSE)
    ELSE IF (self.pre_release = None) # (other.pre_release = None)
    THEN Return(self.pre_release = None)
    ELSE ComparePartsFrom(Split(self.pre_release[1], "."),
                          Split(other.pre_release[1], "."), 1)

\* Version.compare_pre_release(self, other)
compare_pre_release(self, other) ==
    IF self.pre_release = None /\ other.pre_release = None THEN Return(FALSE)
    ELSE IF (self.pre_release = None) # (other.pre_release = None)
    THEN Return(other.pre_release = None)
    ELSE ComparePartsFrom(Split(self.pre_release[1], "."),
                          Split(other.pre_release[1], "."), 1)

\* Variant of __eq__ that also compares build_metadata
EqWithBuild(self, other) ==
    /\ self.major = other.major
    /\ self.minor = other.minor
    /\ self.patch = other.patch
    /\ self.pre_release = other.pre_release
    /\ self.build_metadata = other.build_metadata

\* Version.__eq__(self, other)
Eq(self, other) ==
    /\ self.major = other.major
    /\ self.minor = other.minor
    /\ self.patch = other.patch
    /\ self.pre_release = other.pre_release

\* Variant of __lt__ that looks at minor before major
LtMinorFirst(self, other) ==
    IF Eq(self, other) THEN Return(FALSE)
    ELSE IF self.minor # other.minor THEN Return(self.minor < other.minor)
    ELSE IF self.major # other.major THEN Return(self.major < other.major)
    ELSE IF self.patch # other.patch THEN Return(self.patch < other.patch)
    ELSE compare_pre_release(self, other)

\* Version.__lt__(self, other)
Lt(self, other) ==
    IF Eq(self, other) THEN Return(FALSE)
    ELSE IF self.major # other.major THEN Return(self.major < other.major)
    ELSE IF self.minor # other.minor THEN Return(self.minor < other.minor)
    ELSE IF self.patch # other.patch THEN Return(self.patch < other.patch)
    ELSE compare_pre_release(self, other)

\* Version.__gt__(self, other), which functools.total_ordering derives from
\* __lt__: not (self < other) and self != other
Gt(self, other) ==
    LET op_result == Lt(self, other)
    IN  IF op_result.raised THEN Raise
        ELSE Return(~op_result.value /\ ~Eq(self, other))

----------------------------------------------------------------------------
(* The inputs of the caller *)

MaxTail == 3

MaxIds == 2

MaxTripleIds == 1

\* The characters the free part of a parser input is drawn from
TailAlphabet == {"0", "1", "a", "-", ".", "+", LF, ArabicTwo}

\* All strings over alphabet of length at most n
StringsUpTo(alphabet, n) == UNION {[1..k -> alphabet] : k \in 0..n}

RECURSIVE Join(_, _)
\* sep.join(parts)
Join(parts, sep) ==
    IF Len(parts) = 0 THEN <<>>
    ELSE IF Len(parts) = 1 THEN parts[1]
    ELSE parts[1] \o <<sep>> \o Join(Tail(parts), sep)

\* The left and right strings of main()'s to_test and to_test_equality
MainInputs ==
    {Chars(s) : s \in
       {"1.0.0", "2.0.0", "1.42.0", "1.2.0", "1.2.42", "1.1.0-alpha",
        "1.2.0-alpha.1", "1.0.1b", "1.0.10-alpha.beta", "1.0.0-rc.1",
        "1.0.0-beta", "1.0.0-beta.2", "1.0.0-beta.11", "1.0.0-alpha",
        "1.0.0-alpha.1", "1.0.0-alpha.beta", "1.0.0-rc.2", "1.0.0-rc.10",
        "1.0.0-0.3.7", "1.0.0-alpha.0", "1.0.0-alpha.a", "1.0.0-alpha.0.0",
        "1.0.0-alpha.0.a", "1.0.0+build.1", "1.0.0+build.2",
        "1.0.0-alpha+exp.sha.5114f85"}}

\* Strings a caller may pass that main() does not
OtherInputs ==
    {Chars(s) : s \in
       {"1.0", "1.0.0-", "01.0.0", "1.0.0-+build", "1.00.0", "1.0.01",
        "1.0.00", "1.0.0-alpha\n", " 1.0.0", "1.01.0", "1.a.0", "1..0"}}

\* One Version(s) call: a fixed part of a version and a free part
SingleInputs ==
    {<<s>> : s \in MainInputs \cup OtherInputs
                \cup {Chars("1.0.") \o t : t \in StringsUpTo(TailAlphabet, MaxTail)}
                \cup {Chars("1.0.0") \o t : t \in StringsUpTo(TailAlphabet, MaxTail)}
                \cup {t \o Chars(".0.0") : t \in StringsUpTo(TailAlphabet, MaxTail)}}

\* Pre-release identifiers: numeric ones whose integer and string orders
\* differ, and letters of both cases
PreIds == {Chars("2"), Chars("12"), Chars("a"), Chars("B")}

PreTexts == {Join(ids, ".") : ids \in UNION {[1..k -> PreIds] : k \in 1..MaxIds}}

\* Two Versions of one core: each a release or a pre-release
PreReleasePairs ==
    LET forms == {Chars("1.0.0")} \cup {Chars("1.0.0-") \o p : p \in PreTexts}
    IN  forms \X forms

\* Two pre-releases of one core whose numeric identifiers may be written
\* with a non-ASCII decimal digit
DecimalDigitPairs ==
    LET twelve == <<"1", ArabicTwo>>
        forms == {Chars("1.0.0-") \o p :
                    p \in {Chars("12"), twelve, Chars("12.a"), twelve \o Chars(".2"),
                           twelve \o Chars(".a"), Chars("2"), Chars("a")}}
    IN  forms \X forms

Cores == {Chars(s) : s \in {"1.0.2", "1.0.10", "1.2.0", "2.0.0", "1.10.0"}}

Suffixes == {Chars(s) : s \in {"", "-a", "b", "-2", "+b"}}

\* Two Versions of any two cores
CorePairs ==
    LET forms == {c \o x : c \in Cores, x \in Suffixes} IN forms \X forms

\* The same pre-release written without and with the dash
RelaxedPairs ==
    {<<c \o p, c \o <<"-">> \o p>> :
        c \in Cores, p \in {q \in PreTexts : IsLetterOrHyphen(q[1]) /\ q[1] # "-"}}

\* The chain of section 11 of the SemVer text, in its order
Chain ==
    <<Chars("1.0.0-alpha"), Chars("1.0.0-alpha.1"), Chars("1.0.0-alpha.beta"),
      Chars("1.0.0-beta"), Chars("1.0.0-beta.2"), Chars("1.0.0-beta.11"),
      Chars("1.0.0-rc.1"), Chars("1.0.0")>>

\* Identifiers of the pre-releases that are compared three at a time
TripleIds == {Chars("2"), Chars("a")}

TripleStrings ==
    Range(Chain)
    \cup {Chars(s) : s \in {"1.0.0+build.1", "1.0.0+build.2", "1.0.0-alpha+exp",
                            "1.0.0-beta+1", "1.0.0-12", "1.0.1b", "0.9.0"}}
    \cup {Chars("1.0.0-1") \o <<ArabicTwo>>}
    \cup {Chars("1.0.0-") \o Join(ids, ".") :
             ids \in UNION {[1..k -> TripleIds] : k \in 1..MaxTripleIds}}

Triples == TripleStrings \X TripleStrings \X TripleStrings

\* A numeral one digit longer than int() converts
LongNumeral == [i \in 1..(IntMaxStrDigits + 1) |-> "1"]

\* Versions whose major, or whose pre-release identifier, is such a numeral
LongNumeralInputs ==
    LET long == Chars("1.0.0-") \o LongNumeral
        forms == {long, long \o Chars("+x"), Chars("1.0.0-2"), Chars("1.0.0-a")}
    IN  {<<LongNumeral \o Chars(".0.0b"), LongNumeral \o Chars(".0.0-b")>>}
        \cup (forms \cup {Chars("1.0.0")}) \X forms
        \cup forms \X forms \X forms

Inputs ==
    SingleInputs \cup PreReleasePairs \cup DecimalDigitPairs \cup CorePairs
    \cup RelaxedPairs \cup Triples \cup LongNumeralInputs

----------------------------------------------------------------------------
(* The caller: Version(raw[1]), Version(raw[2]), ... and then comparisons *)

Init ==
    /\ raw \in Inputs
    /\ ver = <<>>
    /\ err = "none"
    /\ pc = "construct"
    /\ res = None

\* Version(raw[i]) for the next argument i
Construct ==
    /\ pc = "construct"
    /\ LET i == Len(ver) + 1
           d == parse_semver(raw[i])
       IN  IF d = None
           THEN /\ err' = "Invalid version"
                /\ pc' = "raised"
                /\ ver' = ver
           ELSE IF ~(CanInt(d[1].major) /\ CanInt(d[1].minor) /\ CanInt(d[1].patch))
           THEN /\ err' = "Invalid version number"
                /\ pc' = "raised"
                /\ ver' = ver
           ELSE /\ ver' = Append(ver, NewVersion(d[1]))
                /\ err' = err
                /\ pc' = IF i < Len(raw) THEN "construct"
                         ELSE IF Len(raw) >= 2 THEN "compare" ELSE "done"
    /\ UNCHANGED <<raw, res>>

\* The comparisons of main(), a < b, a > b, a == b and a != b, for every two
\* of the constructed Versions: lt and gt hold where the operator returned
\* True, raises where __lt__ (and with it >) raised the ValueError of int()
Compare ==
    /\ pc = "compare"
    /\ LET n == Len(ver)
           raises == [i \in 1..n |-> [j \in 1..n |-> Lt(ver[i], ver[j]).raised]]
       IN  /\ res' = Some([lt |-> [i \in 1..n |-> [j \in 1..n |-> Lt(ver[i], ver[j]).value]],
                           gt |-> [i \in 1..n |-> [j \in 1..n |-> Gt(ver[i], ver[j]).value]],
                           eq |-> [i \in 1..n |-> [j \in 1..n |-> Eq(ver[i], ver[j])]],
                           ne |-> [i \in 1..n |-> [j \in 1..n |-> ~Eq(ver[i], ver[j])]],
                           raises |-> raises])
           /\ IF \E i, j \in 1..n : raises[i][j]
              THEN pc' = "raised" /\ err' = "Exceeds the limit"
              ELSE pc' = "done" /\ err' = err
    /\ UNCHANGED <<raw, ver>>

Next == Construct \/ Compare

Spec == Init /\ [][Next]_vars

----------------------------------------------------------------------------
(* The grammar of the specification, section 4.1, over ASCII *)

GNumericId(s) ==
    \/ s = <<"0">>
    \/ /\ Len(s) >= 1
       /\ s[1] \in Range(Chars("123456789"))
       /\ \A i \in 2..Len(s) : s[i] \in Range(Chars("0123456789"))

GIdChars(s) == Len(s) >= 1 /\ \A i \in 1..Len(s) : IsIdChar(s[i])

GPreId(s) ==
    GNumericId(s) \/ (GIdChars(s) /\ \E i \in 1..Len(s) : IsLetterOrHyphen(s[i]))

\* s is a "."-separated list of identifiers, each satisfying Id
GDotted(s, Id(_)) ==
    \A i \in 1..(Len(s) + 1) :
       i = 1 \/ s[i - 1] = "." =>
          LET j == CHOOSE e \in (i - 1)..Len(s) :
                      /\ e = Len(s) \/ s[e + 1] = "."
                      /\ \A k \in i..e : s[k] # "."
          IN  Id(SubSeq(s, i, j))

GPreRelease(s) == GDotted(s, GPreId)

GBuild(s) == GDotted(s, GIdChars)

\* s is M.m.p, cut at the dots d1 and d2
GCoreAt(s, d1, d2) ==
    /\ d1 < d2
    /\ d2 <= Len(s)
    /\ s[d1] = "."
    /\ s[d2] = "."
    /\ GNumericId(SubSeq(s, 1, d1 - 1))
    /\ GNumericId(SubSeq(s, d1 + 1, d2 - 1))
    /\ GNumericId(SubSeq(s, d2 + 1, Len(s)))

GCore(s) ==
    \E d1 \in 1..Len(s) :
       s[d1] = "." /\ \E d2 \in (d1 + 1)..Len(s) : s[d2] = "." /\ GCoreAt(s, d1, d2)

\* version := core ( separator? pre_release )? ( "+" build )?
Derivable(s) ==
    \E d1 \in 1..Len(s) : s[d1] = "." /\ \E d2 \in (d1 + 1)..Len(s) : s[d2] = "." /\
       \E k \in (d2 + 1)..Len(s) :
          /\ GCoreAt(SubSeq(s, 1, k), d1, d2)
          /\ \E m \in k..Len(s) :
                /\ m = Len(s) \/ s[m + 1] = "+"
                /\ \/ k = m
                   \/ GPreRelease(SubSeq(s, k + 1, m))
                   \/ s[k + 1] = "-" /\ k + 1 < m /\ GPreRelease(SubSeq(s, k + 2, m))
                /\ m = Len(s) \/ GBuild(SubSeq(s, m + 2, Len(s)))

RECURSIVE GValue(_)
\* The number an ASCII numeral writes
GValue(s) ==
    IF Len(s) = 0 THEN 0
    ELSE 10 * GValue(SubSeq(s, 1, Len(s) - 1))
         + (CHOOSE v \in 0..9 : Chars("0123456789")[v + 1] = s[Len(s)])

\* The call Version(raw[i]) has returned a Version
Constructed(i) == i <= Len(ver)

\* The call Version(raw[i]) has raised
RaisedAt(i) == pc = "raised" /\ res = None /\ i = Len(ver) + 1

\* The comparisons have been evaluated
Compared == res # None

SameCore(a, b) == a.major = b.major /\ a.minor = b.minor /\ a.patch = b.patch

----------------------------------------------------------------------------
(* Claims *)

\* C1 (as stated): once the comparisons are made, for every two constructed
\* Versions a and b exactly one of a < b, a == b, b < a holds.
C1_Trichotomy ==
    Compared =>
       \A i, j \in 1..Len(ver) :
          LET r == res[1]
          IN  \/ r.lt[i][j] /\ ~r.eq[i][j] /\ ~r.lt[j][i]
              \/ ~r.lt[i][j] /\ r.eq[i][j] /\ ~r.lt[j][i]
              \/ ~r.lt[i][j] /\ ~r.eq[i][j] /\ r.lt[j][i]

\* The chain positions of the argument strings i and j, when both are in it
ChainBefore(i, j) ==
    \E m, n \in 1..Len(Chain) : m < n /\ raw[i] = Chain[m] /\ raw[j] = Chain[n]

\* C2: < on constructed Versions is irreflexive and transitive, and of two
\* members of the chain 1.0.0-alpha ... 1.0.0 the earlier is < the later and
\* the later is not < the earlier (so sorting by < gives the chain's order).
C2_StrictOrderAndChain ==
    Compared =>
       LET lt == res[1].lt
       IN  /\ \A i \in 1..Len(ver) : ~lt[i][i]
           /\ \A i, j, k \in 1..Len(ver) : lt[i][j] /\ lt[j][k] => lt[i][k]
           /\ \A i, j \in 1..Len(ver) :
                 ChainBefore(i, j) => lt[i][j] /\ ~lt[j][i]

\* Three chain members given out of order, all compared: beta.11, beta.2, rc.1
C2_Witness ==
    /\ pc = "done"
    /\ Compared
    /\ raw = <<Chain[6], Chain[5], Chain[7]>>
    /\ res # None
    /\ res[1].lt[2][1] /\ res[1].lt[1][3] /\ res[1].lt[2][3]

\* The text of s before its first "+"
StripBuild(s) ==
    IF \E i \in 1..Len(s) : s[i] = "+"
    THEN SubSeq(s, 1, (CHOOSE i \in 1..Len(s) :
                          s[i] = "+" /\ \A j \in 1..(i - 1) : s[j] # "+") - 1)
    ELSE s

\* C3: two accepted strings that differ only in their +build part give
\* Versions that are ==, neither < the other, and that stand in the same <
\* relations to every third Version (the same answer, or both comparisons
\* raising).
C3_BuildMetadataIgnored ==
    Compared =>
       \A i, j \in 1..Len(ver) :
          StripBuild(raw[i]) = StripBuild(raw[j]) =>
             LET r == res[1]
             IN  /\ r.eq[i][j] /\ ~r.lt[i][j] /\ ~r.lt[j][i]
                 /\ ~r.raises[i][j] /\ ~r.raises[j][i]
                 /\ \A k \in 1..Len(ver) :
                       /\ r.lt[i][k] <=> r.lt[j][k]
                       /\ r.lt[k][i] <=> r.lt[k][j]
                       /\ r.raises[i][k] <=> r.raises[j][k]
                       /\ r.raises[k][i] <=> r.raises[k][j]

\* Two different builds of a release compared with each other and with a
\* pre-release of it
C3_Witness ==
    /\ pc = "done"
    /\ Compared
    /\ raw = <<Chars("1.0.0+build.1"), Chars("1.0.0+build.2"), Chars("1.0.0-alpha")>>
    /\ ver[1].build_metadata # ver[2].build_metadata
    /\ res[1].eq[1][2] /\ res[1].lt[3][1] /\ res[1].lt[3][2]

MalformedExamples == {Chars(s) : s \in {"1.0", "1.0.0-", "01.0.0", "1.0.0-+build"}}

\* C4 (as stated): Version(s) for s among "1.0", "1.0.0-", "01.0.0" and
\* "1.0.0-+build" raises the malformed-version error and yields no Version.
C4_MalformedRejected ==
    \A i \in 1..Len(raw) :
       raw[i] \in MalformedExamples =>
          /\ ~Constructed(i)
          /\ RaisedAt(i) => err = "Invalid version"

\* The digit run that starts at position p has several digits, the first a 0
LeadingZeroRun(s, p) ==
    p + 1 <= Len(s) /\ s[p] = "0" /\ s[p + 1] \in Range(Chars("0123456789"))

\* The digit run in the major, minor or patch position has a leading zero
LeadingZeroInCore(s) ==
    \/ LeadingZeroRun(s, 1)
    \/ \E d1 \in 1..Len(s) :
          /\ s[d1] = "."
          /\ \A i \in 1..(d1 - 1) : s[i] # "."
          /\ \/ LeadingZeroRun(s, d1 + 1)
             \/ \E d2 \in (d1 + 1)..Len(s) :
                   /\ s[d2] = "."
                   /\ \A i \in (d1 + 1)..(d2 - 1) : s[i] # "."
                   /\ LeadingZeroRun(s, d2 + 1)

\* C5 (as stated): an input whose major, minor or patch digit run has more
\* than one digit and starts with 0 never yields a Version; its construction
\* raises the malformed-version error.
C5_LeadingZeroRejected ==
    \A i \in 1..Len(raw) :
       LeadingZeroInCore(raw[i]) =>
          /\ ~Constructed(i)
          /\ RaisedAt(i) => err = "Invalid version"

\* C6 (as stated): Version(raw) succeeds if and only if the whole of raw is
\* derivable from the grammar of section 4.1; otherwise it raises the
\* malformed-version error.
C6_WholeStringAcceptance ==
    \A i \in 1..Len(raw) :
       /\ Constructed(i) => Derivable(raw[i])
       /\ RaisedAt(i) => ~Derivable(raw[i]) /\ err = "Invalid version"

\* s is core c followed by pre-release text P that starts with a letter,
\* where c ends at position k (and, with dash, a "-" stands between them)
RelaxedAt(s, k, dash) ==
    LET from == IF dash THEN k + 2 ELSE k + 1
    IN  /\ from <= Len(s)
        /\ dash => s[k + 1] = "-"
        /\ s[from] \in Range(UpperCase) \cup Range(LowerCase)
        /\ GCore(SubSeq(s, 1, k))
        /\ GPreRelease(SubSeq(s, from, Len(s)))

\* The fields claim C7 gives Version(s) for such an s
RelaxedFields(s, k, dash) ==
    LET c == SubSeq(s, 1, k)
        d1 == CHOOSE d \in 1..k : \E e \in 1..k : GCoreAt(c, d, e)
        d2 == CHOOSE e \in 1..k : GCoreAt(c, d1, e)
    IN  [major |-> GValue(SubSeq(c, 1, d1 - 1)),
         minor |-> GValue(SubSeq(c, d1 + 1, d2 - 1)),
         patch |-> GValue(SubSeq(c, d2 + 1, k)),
         pre_release |-> Some(SubSeq(s, IF dash THEN k + 2 ELSE k + 1, Len(s))),
         build_metadata |-> None]

\* C7 (as stated): for a valid core c = M.m.p and valid pre-release text P starting with
\* a letter, c + P and c + "-" + P are both accepted, each with major = M,
\* minor = m, patch = p, pre_release = P and no build metadata, and the two
\* Versions are ==.
C7_RelaxedSeparator ==
    /\ \A i \in 1..Len(raw) : \A k \in 1..Len(raw[i]), dash \in BOOLEAN :
          RelaxedAt(raw[i], k, dash) =>
             /\ ~RaisedAt(i)
             /\ Constructed(i) => ver[i] = RelaxedFields(raw[i], k, dash)
    /\ Compared =>
          \A i, j \in 1..Len(ver) : \A k \in 1..Len(raw[i]) :
             ( /\ RelaxedAt(raw[i], k, FALSE)
               /\ raw[j] = SubSeq(raw[i], 1, k) \o <<"-">> \o SubSeq(raw[i], k + 1, Len(raw[i])) )
             => res[1].eq[i][j] /\ res[1].eq[j][i]

\* C8: of two Versions with equal major, minor and patch, one with a
\* pre_release and one without, the one with the pre_release is < the
\* other, the other is not < it, and they are !=.
C8_PreReleaseBeforeRelease ==
    Compared =>
       \A i, j \in 1..Len(ver) :
          ( /\ SameCore(ver[i], ver[j])
            /\ ver[i].pre_release # None
            /\ ver[j].pre_release = None )
          => res[1].lt[i][j] /\ ~res[1].lt[j][i] /\ res[1].ne[i][j]

\* The release 1.0.0 and its pre-release B.2, compared both ways
C8_Witness ==
    /\ pc = "done"
    /\ Compared
    /\ raw = <<Chars("1.0.0"), Chars("1.0.0-B.2")>>
    /\ ver[2].pre_release = Some(Chars("B.2"))
    /\ res[1].lt[2][1]
    /\ ~res[1].lt[1][2]

\* The number numeral x writes is below the number numeral y writes, for
\* numerals without leading zeros
NumeralLess(x, y) ==
    \/ Len(x) < Len(y)
    \/ /\ Len(x) = Len(y)
       /\ \E k \in 1..Len(x) :
             /\ \A m \in 1..(k - 1) : DigitVal(x[m]) = DigitVal(y[m])
             /\ DigitVal(x[k]) < DigitVal(y[k])

\* Identifier x is lower than identifier y
IdLower(x, y) ==
    IF IsDigit(x) /\ IsDigit(y) THEN NumeralLess(x, y)
    ELSE IF IsDigit(x) THEN TRUE
    ELSE IF IsDigit(y) THEN FALSE
    ELSE StrLt(x, y)

\* Pre-release text a has lower precedence than pre-release text b
PreLower(a, b) ==
    LET A == Split(a, ".")
        B == Split(b, ".")
    IN  \/ \E k \in 1..Len(A) :
              /\ k <= Len(B)
              /\ \A m \in 1..(k - 1) : A[m] = B[m]
              /\ A[k] # B[k]
              /\ IdLower(A[k], B[k])
        \/ /\ Len(A) < Len(B)
           /\ \A m \in 1..Len(A) : A[m] = B[m]

\* C9 (as stated): for two Versions of equal core that both have a pre_release, a < b
\* iff a's identifier is lower at the first position where the identifiers
\* differ (digits by integer value, all-digit below the rest, the rest by
\* ordinal string order) or, no position differing, a's identifiers are a
\* strict prefix of b's.
C9_IdentifierPrecedence ==
    Compared =>
       \A i, j \in 1..Len(ver) :
          ( /\ SameCore(ver[i], ver[j])
            /\ ver[i].pre_release # None
            /\ ver[j].pre_release # None )
          => (res[1].lt[i][j] <=> PreLower(ver[i].pre_release[1], ver[j].pre_release[1]))

\* Triplet of a is lexicographically below that of b, fields as integers
TripletLess(a, b) ==
    \/ a.major < b.major
    \/ a.major = b.major /\ a.minor < b.minor
    \/ a.major = b.major /\ a.minor = b.minor /\ a.patch < b.patch

\* C10: for two Versions whose (major, minor, patch) differ, a < b iff a's
\* triplet is lexicographically smaller, the fields compared as integers,
\* whatever the pre_release and build_metadata of either.
C10_CorePrecedence ==
    Compared =>
       \A i, j \in 1..Len(ver) :
          ~SameCore(ver[i], ver[j]) =>
             (res[1].lt[i][j] <=> TripletLess(ver[i], ver[j]))

\* 1.0.2 (a release) against 1.0.10-a: 2 < 10 as integers, pre-release or not
C10_Witness ==
    /\ pc = "done"
    /\ Compared
    /\ raw = <<Chars("1.0.2"), Chars("1.0.10-a")>>
    /\ ver[1].patch = 2 /\ ver[2].patch = 10
    /\ res[1].lt[1][2]
    /\ ~res[1].lt[2][1]

====
